---------------------------- MODULE Spec2Model ----------------------------
(***************************************************************************)
(* The verify / settle engine of the TRON x402 facilitator:                *)
(*   src/src/services/tron-x402-service.ts        (TronX402Service)        *)
(*   src/src/services/tron-settlement-service.ts  (TronSettlementService)  *)
(*   src/src/types.ts                             (wallet service holder)  *)
(*                                                                         *)
(* JavaScript strings that the code parses, joins or re-cases are modelled *)
(* as sequences of one-character strings; an absent (undefined) string     *)
(* field is the value Undefined, which is no character sequence.           *)
(***************************************************************************)
EXTENDS Integers, Sequences, FiniteSets, TLC

VARIABLES
    wallet,     \* tronWalletServiceInstance (types.ts:152): 0 for null, or the
                \* number of the TronWalletService object it holds
    now,        \* the last reading of the clock, in unix seconds
    calls,      \* the settle calls, by call id: position, locals and result
    chain,      \* the transfers handed to the chain client so far, in order
    vin,        \* the request of the stand-alone verify call
    vout,       \* its outcome, or Pending
    polls       \* by call id, the status queries the call has made: how
                \* many, and the answer to the last (kept by SpecPoll only)

vars == <<wallet, now, calls, chain, vin, vout, polls>>

-----------------------------------------------------------------------------
(* Bounds of the model *)

\* the clock takes the values 0..MaxNow
MaxNow == 3
\* settle calls made
MaxCalls == 1
\* verify's inputs differ from a valid request in at most this many places
MaxDeviations == 2
\* TronWalletService objects constructed at most
MaxInits == 2

\* tron-settlement-service.ts:135 and :212
maxAttempts == 30

-----------------------------------------------------------------------------
(* JavaScript values *)

\* undefined, where a string is expected
Undefined == <<"undefined">>
\* undefined, where an object is expected
NoObject == [absent |-> TRUE]
\* undefined, where a scheme or network name is expected
NoName == "<undefined>"
\* an optional string-valued result field that is not present
IsObject(v) == "absent" \notin DOMAIN v

\* a JavaScript Number: an integer or NaN
Num(n) == [nan |-> FALSE, n |-> n]
NaN == [nan |-> TRUE, n |-> 0]
\* a < b and a >= b on Numbers: every comparison with NaN is false
NumLt(a, b) == ~a.nan /\ ~b.nan /\ a.n < b.n
NumGe(a, b) == ~a.nan /\ ~b.nan /\ a.n >= b.n

DecDigits == {"0", "1", "2", "3", "4", "5", "6", "7", "8", "9"}
HexDigits == DecDigits \cup {"a", "b", "c", "d", "e", "f", "A", "B", "C", "D", "E", "F"}

DigitVal(c) ==
    CASE c = "0" -> 0 [] c = "1" -> 1 [] c = "2" -> 2 [] c = "3" -> 3
      [] c = "4" -> 4 [] c = "5" -> 5 [] c = "6" -> 6 [] c = "7" -> 7
      [] c = "8" -> 8 [] c = "9" -> 9
      [] c \in {"a", "A"} -> 10 [] c \in {"b", "B"} -> 11
      [] c \in {"c", "C"} -> 12 [] c \in {"d", "D"} -> 13
      [] c \in {"e", "E"} -> 14 [] c \in {"f", "F"} -> 15

AllIn(s, S) == \A i \in 1..Len(s) : s[i] \in S

RECURSIVE RadixVal(_, _)
RadixVal(s, radix) ==
    IF s = <<>> THEN 0
    ELSE radix * RadixVal(SubSeq(s, 1, Len(s) - 1), radix) + DigitVal(s[Len(s)])

RECURSIVE TrimStart(_)
TrimStart(s) == IF s # <<>> /\ s[1] = " " THEN TrimStart(Tail(s)) ELSE s

RECURSIVE TrimEnd(_)
TrimEnd(s) ==
    IF s # <<>> /\ s[Len(s)] = " " THEN TrimEnd(SubSeq(s, 1, Len(s) - 1)) ELSE s

Trim(s) == TrimEnd(TrimStart(s))

IsDecimal(s) == s # <<>> /\ AllIn(s, DecDigits)

\* BigInt(v) for a string or undefined v: the forms StringToBigInt accepts are
\* the empty string, decimal digits with an optional sign, and 0x hex digits,
\* with white space around them; anything else throws
BigIntDecimal(t) == IsDecimal(t)
BigIntSigned(t) == Len(t) >= 2 /\ t[1] \in {"+", "-"} /\ IsDecimal(Tail(t))
BigIntHex(t) ==
    Len(t) >= 3 /\ t[1] = "0" /\ t[2] \in {"x", "X"}
    /\ AllIn(SubSeq(t, 3, Len(t)), HexDigits)

BigIntThrows(v) ==
    \/ v = Undefined
    \/ LET t == Trim(v)
       IN  ~(t = <<>> \/ BigIntDecimal(t) \/ BigIntSigned(t) \/ BigIntHex(t))

BigInt(v) ==
    LET t == Trim(v)
    IN  IF t = <<>> THEN 0
        ELSE IF BigIntDecimal(t) THEN RadixVal(t, 10)
        ELSE IF BigIntSigned(t)
             THEN (IF t[1] = "-" THEN -1 ELSE 1) * RadixVal(Tail(t), 10)
        ELSE RadixVal(SubSeq(t, 3, Len(t)), 16)

\* the longest prefix of s made of decimal digits
RECURSIVE DigitPrefix(_)
DigitPrefix(s) ==
    IF s # <<>> /\ s[1] \in DecDigits THEN <<s[1]>> \o DigitPrefix(Tail(s)) ELSE <<>>

\* parseInt(v, 10): leading white space and one sign are skipped, the digits
\* that follow are read, whatever comes after them is ignored; no digits
\* (also for undefined, read as the text "undefined") gives NaN
parseInt(v) ==
    IF v = Undefined THEN NaN
    ELSE LET t == TrimStart(v)
             neg == t # <<>> /\ t[1] = "-"
             body == IF t # <<>> /\ t[1] \in {"+", "-"} THEN Tail(t) ELSE t
             ds == DigitPrefix(body)
         IN  IF ds = <<>> THEN NaN
             ELSE Num((IF neg THEN -1 ELSE 1) * RadixVal(ds, 10))

LowerChar(c) ==
    CASE c = "A" -> "a" [] c = "B" -> "b" [] c = "C" -> "c" [] c = "D" -> "d"
      [] c = "E" -> "e" [] c = "F" -> "f" [] c = "T" -> "t" [] c = "R" -> "r"
      [] c = "S" -> "s" [] c = "J" -> "j" [] c = "U" -> "u" [] c = "X" -> "x"
      [] OTHER -> c

toLowerCase(s) == [i \in 1..Len(s) |-> LowerChar(s[i])]

\* parts.join('|'): an undefined part is joined as the empty string
RECURSIVE Join(_)
Join(parts) ==
    IF parts = <<>> THEN <<>>
    ELSE LET h == IF parts[1] = Undefined THEN <<>> ELSE parts[1]
         IN  IF Len(parts) = 1 THEN h ELSE h \o <<"|">> \o Join(Tail(parts))


-----------------------------------------------------------------------------
(* Addresses.  Four accounts, each with a base58 form (first letter T) and *)
(* hex forms; the chain client's library converts between them.           *)

PayerB58 == <<"T", "A">>
PayerHex == <<"4", "1", "a", "a">>
OtherB58 == <<"T", "B">>
OtherHex == <<"4", "1", "b", "b">>
MerchantB58 == <<"T", "R">>
MerchantHex == <<"4", "1", "c", "c">>
MerchantHexUpper == <<"4", "1", "C", "C">>
MerchantHex0x == <<"0", "x", "c", "c">>
StrangerB58 == <<"T", "S">>
StrangerHex == <<"4", "1", "d", "d">>
\* the address a signature recovers to when it was made over another message
JunkB58 == <<"T", "J">>
JunkHex == <<"4", "1", "e", "e">>
\* a TRC20 contract
UsdtB58 == <<"T", "U">>
\* a text that starts with T and is no base58 address
NotBase58 == <<"T", "X">>

Base58Addresses == {PayerB58, OtherB58, MerchantB58, StrangerB58, JunkB58, UsdtB58}

\* tronWeb.address.toHex on a base58 address (it throws on any other text
\* that starts with T)
addressToHex(a) ==
    CASE a = PayerB58 -> PayerHex
      [] a = OtherB58 -> OtherHex
      [] a = MerchantB58 -> MerchantHex
      [] a = StrangerB58 -> StrangerHex
      [] a = JunkB58 -> JunkHex
      [] a = UsdtB58 -> <<"4", "1", "f", "f">>

\* normalizeAddress throws only when its argument is undefined: startsWith
\* throws inside the try, and toLowerCase throws again inside the catch
normalizeAddressThrows(address) == address = Undefined

normalizeAddress(address) ==
    IF address # <<>> /\ address[1] = "T"
    THEN IF address \in Base58Addresses
         THEN toLowerCase(addressToHex(address))
         ELSE toLowerCase(address)
    ELSE toLowerCase(address)

-----------------------------------------------------------------------------
(* Errors *)

\* a thrown Error object, and a thrown value that is no Error
Error(m) == [isError |-> TRUE, message |-> m]
NonError(m) == [isError |-> FALSE, message |-> m]
TypeError == Error("Cannot read properties of undefined")
SyntaxError == Error("Cannot convert to a BigInt")

\* error instanceof Error ? error.message : fallback
messageOr(error, fallback) == IF error.isError THEN error.message ELSE fallback

Returned(v) == [threw |-> FALSE, value |-> v]
Thrown(e) == [threw |-> TRUE, error |-> e]

-----------------------------------------------------------------------------
(* Payment headers and tokens *)

\* A header is a text; Buffer.from(.., 'base64').toString('utf-8') never
\* throws, so what the header is to the code is what JSON.parse makes of the
\* decoded text: a syntax error, or a JSON value.  A JSON value is a
\* primitive ([prim |-> ..]) or an object with the token's four keys, an
\* absent key holding NoName / NoObject.
MalformedHeader == [malformed |-> TRUE]
JsonHeader(v) == [malformed |-> FALSE, json |-> v]

JsonNull == [prim |-> "null"]
JsonZero == [prim |-> "0"]
JsonNumber == [prim |-> "5"]

IsPrim(v) == "prim" \in DOMAIN v

\* !paymentToken
Falsy(v) == IsPrim(v) /\ v.prim \in {"null", "0"}

\* property reads on a parsed value: a primitive has none of the keys
schemeOf(tok) == IF IsPrim(tok) THEN NoName ELSE tok.scheme
networkOf(tok) == IF IsPrim(tok) THEN NoName ELSE tok.network
payloadOf(tok) == IF IsPrim(tok) THEN NoObject ELSE tok.payload
signatureOf(tok) == IF IsPrim(tok) THEN NoObject ELSE tok.signature

parsePaymentHeader(paymentHeader) ==
    IF paymentHeader.malformed THEN JsonNull ELSE paymentHeader.json

\* if (payload.tokenAddress)
Truthy(s) == s # Undefined /\ s # <<>>

\* lines 166-182 with the value left out of the message
buildSignatureMessageWithoutValue(payload) ==
    Join(<<payload.from, payload.to, payload.validAfter,
           payload.validBefore, payload.nonce>>
         \o (IF Truthy(payload.tokenAddress) THEN <<payload.tokenAddress>> ELSE <<>>))

buildSignatureMessage(payload) ==
    Join(<<payload.from, payload.to, payload.value, payload.validAfter,
           payload.validBefore, payload.nonce>>
         \o (IF Truthy(payload.tokenAddress) THEN <<payload.tokenAddress>> ELSE <<>>))

\* tronWeb.toHex of a text: an injective encoding
toHex(message) == <<"0", "x">> \o message

\* A signature string is what a signer made over a message, or a text that
\* is no signature.  tronWeb.trx.verifyMessage recovers the signer from a
\* signature made over the same message and an unrelated address otherwise.
SignatureBy(signer, messageHex) == [wellFormed |-> TRUE, signer |-> signer, msg |-> messageHex]
BadSignature == [wellFormed |-> FALSE]

verifyMessage(messageHex, sig) ==
    IF sig.msg = messageHex THEN sig.signer ELSE JunkB58

-----------------------------------------------------------------------------
(* TronX402Service.verify *)

NoReason == [kind |-> "absent"]

Invalid(reason) ==
    [isValid |-> FALSE, invalidReason |-> reason,
     payer |-> Undefined, paymentToken |-> NoObject]

Valid(payer, paymentToken) ==
    [isValid |-> TRUE, invalidReason |-> NoReason,
     payer |-> payer, paymentToken |-> paymentToken]

SignatureError(e) == [valid |-> FALSE, reason |-> [kind |-> "SignatureError", message |-> e.message]]

verifyTronSignature(payload, signature) ==
    IF ~IsObject(payload) THEN SignatureError(TypeError)
    ELSE IF ~IsObject(signature) THEN SignatureError(TypeError)
    ELSE IF ~signature.signature.wellFormed THEN SignatureError(Error("Invalid signature"))
    ELSE IF normalizeAddressThrows(payload.from) THEN SignatureError(TypeError)
    ELSE LET messageHex == toHex(buildSignatureMessage(payload))
             recoveredAddress == verifyMessage(messageHex, signature.signature)
         IN  IF normalizeAddress(recoveredAddress) # normalizeAddress(payload.from)
             THEN [valid |-> FALSE,
                   reason |-> [kind |-> "SignatureFailed",
                               recovered |-> recoveredAddress,
                               expectedFrom |-> payload.from]]
             ELSE [valid |-> TRUE, reason |-> NoReason]

\* line 104
notYetValid(t, validAfter) == NumLt(Num(t), validAfter)

\* line 111 with > written for >=
expiredStrict(t, validBefore) == ~validBefore.nan /\ t > validBefore.n

\* line 111
expired(t, validBefore) == NumGe(Num(t), validBefore)

\* lines 99-123: the time window, then the valid result
verifyTiming(paymentToken, req, t) ==
    LET payload == payloadOf(paymentToken)
        validAfter == parseInt(payload.validAfter)
        validBefore == parseInt(payload.validBefore)
    IN  IF notYetValid(t, validAfter)
        THEN Returned(Invalid([kind |-> "NotYetValid", validAfter |-> validAfter, at |-> t]))
        ELSE IF expired(t, validBefore)
        THEN Returned(Invalid([kind |-> "Expired", validBefore |-> validBefore, at |-> t]))
        ELSE Returned(Valid(payload.from, paymentToken))

\* lines 88-97: the recipient
verifyRecipient(paymentToken, req, t) ==
    LET payload == payloadOf(paymentToken)
    IN  IF normalizeAddressThrows(payload.to) \/ normalizeAddressThrows(req.payTo)
        THEN Thrown(TypeError)
        ELSE IF normalizeAddress(payload.to) # normalizeAddress(req.payTo)
        THEN Returned(Invalid([kind |-> "RecipientMismatch",
                               expectedTo |-> req.payTo, gotTo |-> payload.to]))
        ELSE verifyTiming(paymentToken, req, t)

\* line 81 with <= written for <
insufficientOrEqual(paymentAmount, requiredAmount) == paymentAmount <= requiredAmount

\* line 81
insufficient(paymentAmount, requiredAmount) == paymentAmount < requiredAmount

\* lines 77-86: the amount
verifyAmount(paymentToken, req, t) ==
    LET payload == payloadOf(paymentToken)
    IN  IF ~IsObject(payload) THEN Thrown(TypeError)
        ELSE IF BigIntThrows(payload.value)
        THEN Thrown(IF payload.value = Undefined THEN TypeError ELSE SyntaxError)
        ELSE IF BigIntThrows(req.maxAmountRequired)
        THEN Thrown(IF req.maxAmountRequired = Undefined THEN TypeError ELSE SyntaxError)
        ELSE IF insufficient(BigInt(payload.value), BigInt(req.maxAmountRequired))
        THEN Returned(Invalid([kind |-> "Insufficient",
                               required |-> BigInt(req.maxAmountRequired),
                               got |-> BigInt(payload.value)]))
        ELSE verifyRecipient(paymentToken, req, t)

\* lines 62-75: the signature, for the tron-transfer scheme only
verifySignature(paymentToken, req, t) ==
    LET signatureValid == verifyTronSignature(payloadOf(paymentToken), signatureOf(paymentToken))
    IN  IF schemeOf(paymentToken) = "tron-transfer" /\ ~signatureValid.valid
        THEN Returned(Invalid(signatureValid.reason))
        ELSE verifyAmount(paymentToken, req, t)

\* lines 46-60 with the two checks in the other order
verifyNetworkThenScheme(paymentToken, req, t) ==
    IF networkOf(paymentToken) # req.network
    THEN Returned(Invalid([kind |-> "NetworkMismatch",
                           expectedNetwork |-> req.network,
                           gotNetwork |-> networkOf(paymentToken)]))
    ELSE IF schemeOf(paymentToken) # req.scheme
    THEN Returned(Invalid([kind |-> "SchemeMismatch",
                           expectedScheme |-> req.scheme,
                           gotScheme |-> schemeOf(paymentToken)]))
    ELSE verifySignature(paymentToken, req, t)

\* lines 46-60 with the scheme compared to the one scheme the service knows
\* instead of the required one
verifySchemeHardCoded(paymentToken, req, t) ==
    IF schemeOf(paymentToken) # "tron-transfer"
    THEN Returned(Invalid([kind |-> "SchemeMismatch",
                           expectedScheme |-> req.scheme,
                           gotScheme |-> schemeOf(paymentToken)]))
    ELSE IF networkOf(paymentToken) # req.network
    THEN Returned(Invalid([kind |-> "NetworkMismatch",
                           expectedNetwork |-> req.network,
                           gotNetwork |-> networkOf(paymentToken)]))
    ELSE verifySignature(paymentToken, req, t)

\* lines 46-60: scheme, then network
verifySchemeAndNetwork(paymentToken, req, t) ==
    IF schemeOf(paymentToken) # req.scheme
    THEN Returned(Invalid([kind |-> "SchemeMismatch",
                           expectedScheme |-> req.scheme,
                           gotScheme |-> schemeOf(paymentToken)]))
    ELSE IF networkOf(paymentToken) # req.network
    THEN Returned(Invalid([kind |-> "NetworkMismatch",
                           expectedNetwork |-> req.network,
                           gotNetwork |-> networkOf(paymentToken)]))
    ELSE verifySignature(paymentToken, req, t)

\* verify(request) when the clock reads t: what it returns, or what it throws
verify(request, t) ==
    LET paymentToken == parsePaymentHeader(request.paymentHeader)
    IN  IF Falsy(paymentToken)
        THEN Returned(Invalid([kind |-> "Decode"]))
        ELSE verifySchemeAndNetwork(paymentToken, request.paymentRequirements, t)

-----------------------------------------------------------------------------
(* The requests the model feeds to verify and settle.  A case names the     *)
(* content of a header and of the requirements; RequestOf builds the        *)
(* request from it, signing the payload as the case says.                   *)

DigitChar(n) == <<"0", "1", "2", "3", "4", "5", "6", "7", "8", "9">>[n + 1]
\* the decimal text of a clock value
TimeText(n) == <<DigitChar(n)>>

AmountTexts == {<<"9">>, <<"1", "0">>, <<"1", "1">>, <<"1", "0", "0">>}
OddAmountTexts == {<<>>, <<"-", "1">>, <<"0", "x", "a">>, <<"1", ".", "5">>}
OddTimeTexts == {<<"x">>, Undefined}

\* the account whose key makes a signature that verifies for `from`
SignerOf(from) ==
    IF from \in {OtherB58, OtherHex} THEN OtherB58 ELSE PayerB58

PayloadOfCase(c) ==
    IF c.hasPayload
    THEN [from |-> c.from, to |-> c.to, value |-> c.value,
          validAfter |-> c.validAfter, validBefore |-> c.validBefore,
          nonce |-> c.nonce, tokenAddress |-> c.tokenAddress]
    ELSE NoObject

\* the payload the payer signed: 10 to the merchant, valid from 1 until 3
SignedPayload(tokenAddress) ==
    [from |-> PayerB58, to |-> MerchantB58, value |-> <<"1", "0">>,
     validAfter |-> TimeText(1), validBefore |-> TimeText(3), nonce |-> <<"n", "1">>,
     tokenAddress |-> tokenAddress]

\* the signature that payload was sent with
KeptSignature(tokenAddress) ==
    [signature |-> SignatureBy(PayerB58,
                               toHex(buildSignatureMessage(SignedPayload(tokenAddress))))]

SignatureOfCase(c) ==
    LET payload == PayloadOfCase(c)
        signed == IF IsObject(payload) THEN toHex(buildSignatureMessage(payload)) ELSE <<>>
        earlier == IF IsObject(payload)
                   THEN toHex(buildSignatureMessage([payload EXCEPT !.nonce = <<"n", "0">>]))
                   ELSE <<>>
    IN  CASE c.sig = "good" -> [signature |-> SignatureBy(SignerOf(c.from), signed)]
          [] c.sig = "wrongSigner" -> [signature |-> SignatureBy(StrangerB58, signed)]
          [] c.sig = "otherMessage" -> [signature |-> SignatureBy(SignerOf(c.from), earlier)]
          [] c.sig = "malformed" -> [signature |-> BadSignature]
          [] c.sig = "kept" -> KeptSignature(c.tokenAddress)
          [] c.sig = "absent" -> NoObject

HeaderOfCase(c) ==
    CASE c.hk = "malformed" -> MalformedHeader
      [] c.hk = "null" -> JsonHeader(JsonNull)
      [] c.hk = "number" -> JsonHeader(JsonNumber)
      [] c.hk = "object" ->
            JsonHeader([scheme |-> c.scheme, network |-> c.network,
                        payload |-> PayloadOfCase(c), signature |-> SignatureOfCase(c)])

RequirementsOfCase(c) ==
    [scheme |-> c.rScheme, network |-> c.rNetwork,
     maxAmountRequired |-> c.rMax, payTo |-> c.rPayTo]

RequestOf(c) ==
    [paymentHeader |-> HeaderOfCase(c), paymentRequirements |-> RequirementsOfCase(c)]

\* a correctly signed TRC20 transfer of 10 to the merchant, valid from 1 until 3
BaseTrc20 ==
    [hk |-> "object", scheme |-> "tron-transfer", network |-> "tron-shasta",
     hasPayload |-> TRUE, from |-> PayerB58, to |-> MerchantB58, value |-> <<"1", "0">>,
     validAfter |-> TimeText(1), validBefore |-> TimeText(3), nonce |-> <<"n", "1">>,
     tokenAddress |-> UsdtB58, sig |-> "good",
     rScheme |-> "tron-transfer", rNetwork |-> "tron-shasta",
     rMax |-> <<"1", "0">>, rPayTo |-> MerchantHex, at |-> 1]

\* the same as a native TRX transfer
BaseNative == [BaseTrc20 EXCEPT !.tokenAddress = Undefined]

\* a request of another scheme, which verify does not check a signature for
BaseExact ==
    [BaseNative EXCEPT !.scheme = "exact", !.rScheme = "exact", !.sig = "absent"]

Bases == {BaseTrc20, BaseNative, BaseExact}

\* the changes made to a base, one place each; NoChange leaves it alone
NoChange == [unchanged |-> TRUE]

Changes ==
    {NoChange}
    \cup {[hk |-> v] : v \in {"malformed", "null", "number"}}
    \cup {[scheme |-> v] : v \in {"tron-transfer", "exact", NoName}}
    \cup {[rScheme |-> v] : v \in {"tron-transfer", "exact"}}
    \cup {[network |-> v] : v \in {"tron-mainnet", NoName}}
    \cup {[rNetwork |-> v] : v \in {"tron-mainnet"}}
    \cup {[hasPayload |-> v] : v \in {FALSE}}
    \cup {[from |-> v] : v \in {PayerHex, OtherB58, Undefined}}
    \cup {[to |-> v] : v \in {MerchantHexUpper, MerchantHex0x, StrangerB58, Undefined}}
    \cup {[rPayTo |-> v] : v \in {MerchantB58, StrangerHex}}
    \cup {[value |-> v] : v \in AmountTexts \cup OddAmountTexts \cup {Undefined}}
    \cup {[rMax |-> v] : v \in AmountTexts \cup {<<"x">>, Undefined}}
    \cup {[validAfter |-> v] : v \in {TimeText(n) : n \in 0..MaxNow} \cup OddTimeTexts}
    \cup {[validBefore |-> v] : v \in {TimeText(n) : n \in 0..MaxNow} \cup OddTimeTexts}
    \cup {[at |-> v] : v \in 0..MaxNow}
    \cup {[nonce |-> v] : v \in {<<"n", "2">>, Undefined}}
    \cup {[tokenAddress |-> v] : v \in {Undefined, UsdtB58}}
    \cup {[sig |-> v] : v \in {"good", "wrongSigner", "otherMessage", "malformed", "absent", "kept"}}

Change(c, d) == [f \in DOMAIN c |-> IF f \in DOMAIN d THEN d[f] ELSE c[f]]

\* the base changed by ds[1], .., ds[n] in turn
RECURSIVE ChangeAll(_, _)
ChangeAll(c, ds) ==
    IF ds = <<>> THEN c ELSE ChangeAll(Change(c, Head(ds)), Tail(ds))

-----------------------------------------------------------------------------
(* The header as a text: encodePaymentHeader and parsePaymentHeader, by what *)
(* Buffer and JSON do to the characters                                      *)

\* the characters of codes 32..126, in order (the grave accent by its name)
Ascii ==
    <<" ", "!", "\"", "#", "$", "%", "&", "'", "(", ")", "*", "+",
      ",", "-", ".", "/", "0", "1", "2", "3", "4", "5", "6", "7",
      "8", "9", ":", ";", "<", "=", ">", "?", "@", "A", "B", "C",
      "D", "E", "F", "G", "H", "I", "J", "K", "L", "M", "N", "O",
      "P", "Q", "R", "S", "T", "U", "V", "W", "X", "Y", "Z", "[",
      "\\", "]", "^", "_", "U+0060", "a", "b", "c", "d", "e", "f", "g",
      "h", "i", "j", "k", "l", "m", "n", "o", "p", "q", "r", "s",
      "t", "u", "v", "w", "x", "y", "z", "{", "|", "}", "~">>

\* a character outside ASCII: U+00E9, two bytes in UTF-8
EAcute == "U+00E9"
\* what a decoder puts for bytes that are no UTF-8
Replacement == "U+FFFD"

CodeOf(c) == 31 + CHOOSE i \in 1..Len(Ascii) : Ascii[i] = c

\* parts[lo] \o .. \o parts[hi]
RECURSIVE Concat(_, _, _)
Concat(parts, lo, hi) ==
    IF lo > hi THEN <<>>
    ELSE IF lo = hi THEN parts[lo]
    ELSE LET mid == (lo + hi) \div 2
         IN  Concat(parts, lo, mid) \o Concat(parts, mid + 1, hi)

\* Buffer.from(text): the UTF-8 bytes of the text
utf8Encode(text) ==
    Concat([i \in 1..Len(text) |->
               IF text[i] = EAcute THEN <<195, 169>> ELSE <<CodeOf(text[i])>>],
           1, Len(text))

\* buffer.toString('utf-8'): a byte 195 with 169 behind it is U+00E9, a
\* byte that is neither ASCII nor part of such a pair is replaced
utf8Decode(bytes) ==
    Concat([i \in 1..Len(bytes) |->
               IF bytes[i] \in 32..126 THEN <<Ascii[bytes[i] - 31]>>
               ELSE IF bytes[i] = 195 /\ i < Len(bytes) /\ bytes[i + 1] = 169
               THEN <<EAcute>>
               ELSE IF bytes[i] = 169 /\ i > 1 /\ bytes[i - 1] = 195 THEN <<>>
               ELSE <<Replacement>>],
           1, Len(bytes))

Base64Alphabet ==
    <<"A", "B", "C", "D", "E", "F", "G", "H", "I", "J", "K", "L", "M",
      "N", "O", "P", "Q", "R", "S", "T", "U", "V", "W", "X", "Y", "Z",
      "a", "b", "c", "d", "e", "f", "g", "h", "i", "j", "k", "l", "m",
      "n", "o", "p", "q", "r", "s", "t", "u", "v", "w", "x", "y", "z",
      "0", "1", "2", "3", "4", "5", "6", "7", "8", "9", "+", "/">>

Sextet(n) == Base64Alphabet[n + 1]
SextetOf(c) == (CHOOSE i \in 1..64 : Base64Alphabet[i] = c) - 1

\* three bytes to four characters, '=' padding a last group of one or two
base64Group(bytes) ==
    IF Len(bytes) = 1
    THEN LET n == bytes[1] * 16
         IN  <<Sextet(n \div 64), Sextet(n % 64), "=", "=">>
    ELSE IF Len(bytes) = 2
    THEN LET n == (bytes[1] * 256 + bytes[2]) * 4
         IN  <<Sextet(n \div 4096), Sextet((n \div 64) % 64), Sextet(n % 64), "=">>
    ELSE LET n == bytes[1] * 65536 + bytes[2] * 256 + bytes[3]
         IN  <<Sextet(n \div 262144), Sextet((n \div 4096) % 64),
               Sextet((n \div 64) % 64), Sextet(n % 64)>>

Min(a, b) == IF a < b THEN a ELSE b

\* buffer.toString('base64')
base64Encode(bytes) ==
    LET groups == (Len(bytes) + 2) \div 3
    IN  Concat([g \in 1..groups |->
                   base64Group(SubSeq(bytes, 3 * g - 2, Min(3 * g, Len(bytes))))],
               1, groups)

IsBase64Char(c) == \E i \in 1..64 : Base64Alphabet[i] = c

\* four sextets to three bytes, a last group of two or three to one or two
base64Quad(sextets) ==
    IF Len(sextets) < 2 THEN <<>>
    ELSE IF Len(sextets) = 2
    THEN <<(sextets[1] * 64 + sextets[2]) \div 16>>
    ELSE IF Len(sextets) = 3
    THEN LET n == (sextets[1] * 4096 + sextets[2] * 64 + sextets[3]) \div 4
         IN  <<n \div 256, n % 256>>
    ELSE LET n == sextets[1] * 262144 + sextets[2] * 4096 + sextets[3] * 64 + sextets[4]
         IN  <<n \div 65536, (n \div 256) % 256, n % 256>>

base64Bytes(sextets) ==
    LET groups == (Len(sextets) + 3) \div 4
    IN  Concat([g \in 1..groups |->
                   base64Quad(SubSeq(sextets, 4 * g - 3, Min(4 * g, Len(sextets))))],
               1, groups)

\* Buffer.from(text, 'base64'): characters outside the alphabet are passed
\* over, the padding ends the data; it never throws
base64Decode(text) ==
    LET data == SelectSeq(text, IsBase64Char)
    IN  base64Bytes([i \in 1..Len(data) |-> SextetOf(data[i])])

\* JSON.stringify of a string with nothing escaped
escapeNothing(text) == text

\* JSON.stringify of a string: quoted, with quote and backslash escaped
RECURSIVE escape(_)
escape(text) ==
    IF text = <<>> THEN <<>>
    ELSE (IF Head(text) \in {"\"", "\\"} THEN <<"\\", Head(text)>> ELSE <<Head(text)>>)
         \o escape(Tail(text))

quote(text) == <<"\"">> \o escape(text) \o <<"\"">>

\* a JSON value is [str |-> text] or [obj |-> members], a member being
\* [key |-> text, val |-> value]; NoValue (undefined) is no JSON value
NoValue == [undefined |-> TRUE]
Str(text) == IF text = Undefined THEN NoValue ELSE [str |-> text]
Member(key, value) == [key |-> key, val |-> value]
Obj(members) == [obj |-> members]

RECURSIVE stringify(_)
RECURSIVE stringifyMembers(_, _)
\* the members of an object, those with an undefined value left out
stringifyMembers(members, first) ==
    IF members = <<>> THEN <<>>
    ELSE IF Head(members).val = NoValue THEN stringifyMembers(Tail(members), first)
    ELSE (IF first THEN <<>> ELSE <<",">>)
         \o quote(Head(members).key) \o <<":">> \o stringify(Head(members).val)
         \o stringifyMembers(Tail(members), FALSE)

\* JSON.stringify
stringify(value) ==
    IF "str" \in DOMAIN value THEN quote(value.str)
    ELSE <<"{">> \o stringifyMembers(value.obj, TRUE) \o <<"}">>

ParseError == [ok |-> FALSE]
Parsed(value, pos) == [ok |-> TRUE, val |-> value, pos |-> pos]

\* the characters of a JSON string, from position i just after the opening
\* quote; pos is the position after the closing quote
RECURSIVE scanString(_, _, _)
scanString(text, i, acc) ==
    IF i > Len(text) THEN ParseError
    ELSE IF text[i] = "\"" THEN Parsed(acc, i + 1)
    ELSE IF text[i] = "\\"
    THEN IF i < Len(text) /\ text[i + 1] \in {"\"", "\\", "/"}
         THEN scanString(text, i + 2, Append(acc, text[i + 1]))
         ELSE ParseError
    ELSE scanString(text, i + 1, Append(acc, text[i]))

parseString(text, i) ==
    IF i <= Len(text) /\ text[i] = "\"" THEN scanString(text, i + 1, <<>>) ELSE ParseError

RECURSIVE parseValue(_, _)
RECURSIVE parseMembers(_, _, _)
\* key : value , .. } from position i
parseMembers(text, i, acc) ==
    LET key == parseString(text, i)
    IN  IF ~key.ok \/ key.pos > Len(text) \/ text[key.pos] # ":" THEN ParseError
        ELSE LET value == parseValue(text, key.pos + 1)
             IN  IF ~value.ok \/ value.pos > Len(text) THEN ParseError
                 ELSE LET members == Append(acc, Member(key.val, value.val))
                      IN  IF text[value.pos] = "}" THEN Parsed(Obj(members), value.pos + 1)
                          ELSE IF text[value.pos] = ","
                          THEN parseMembers(text, value.pos + 1, members)
                          ELSE ParseError

\* a string or an object (the values a token is made of) from position i
parseValue(text, i) ==
    IF i > Len(text) THEN ParseError
    ELSE IF text[i] = "\"" THEN
        LET str == parseString(text, i)
        IN  IF str.ok THEN Parsed(Str(str.val), str.pos) ELSE ParseError
    ELSE IF text[i] = "{" THEN
        IF i < Len(text) /\ text[i + 1] = "}" THEN Parsed(Obj(<<>>), i + 2)
        ELSE parseMembers(text, i + 1, <<>>)
    ELSE ParseError

\* JSON.parse: the value of the whole text, or a SyntaxError
JSONparse(text) ==
    LET value == parseValue(text, 1)
    IN  IF value.ok /\ value.pos = Len(text) + 1
        THEN Returned(value.val) ELSE Thrown(SyntaxError)

\* lines 203-205
encodePaymentHeader(paymentToken) ==
    base64Encode(utf8Encode(stringify(paymentToken)))

\* lines 22-29, on the text of the header
parsePaymentHeaderText(paymentHeader) ==
    LET decoded == utf8Decode(base64Decode(paymentHeader))
        parsed == JSONparse(decoded)
    IN  IF parsed.threw THEN JsonNull ELSE parsed.value

\* the keys of a token
KeyScheme == <<"s", "c", "h", "e", "m", "e">>
KeyNetwork == <<"n", "e", "t", "w", "o", "r", "k">>
KeyPayload == <<"p", "a", "y", "l", "o", "a", "d">>
KeySignature == <<"s", "i", "g", "n", "a", "t", "u", "r", "e">>
KeyFrom == <<"f", "r", "o", "m">>
KeyTo == <<"t", "o">>
KeyValue == <<"v", "a", "l", "u", "e">>
KeyValidAfter == <<"v", "a", "l", "i", "d", "A", "f", "t", "e", "r">>
KeyValidBefore == <<"v", "a", "l", "i", "d", "B", "e", "f", "o", "r", "e">>
KeyNonce == <<"n", "o", "n", "c", "e">>
KeyTokenAddress == <<"t", "o", "k", "e", "n", "A", "d", "d", "r", "e", "s", "s">>

\* o[key] of a parsed or of a built value
Field(o, key) ==
    IF "obj" \notin DOMAIN o THEN NoValue
    ELSE LET at == {i \in 1..Len(o.obj) : o.obj[i].key = key}
         IN  IF at = {} THEN NoValue
             ELSE o.obj[CHOOSE i \in at : \A j \in at : j <= i].val

\* the keys o has a value for
KeysOf(o) ==
    IF "obj" \notin DOMAIN o THEN {}
    ELSE {o.obj[i].key : i \in {j \in 1..Len(o.obj) : o.obj[j].val # NoValue}}

\* a payment token as the object the service is given
PaymentToken(scheme, network, from, value, nonce, tokenAddress, signature) ==
    Obj(<<Member(KeyScheme, Str(scheme)),
          Member(KeyNetwork, Str(network)),
          Member(KeyPayload,
                 Obj(<<Member(KeyFrom, Str(from)),
                       Member(KeyTo, Str(MerchantB58)),
                       Member(KeyValue, Str(value)),
                       Member(KeyValidAfter, Str(TimeText(1))),
                       Member(KeyValidBefore, Str(TimeText(3))),
                       Member(KeyNonce, Str(nonce)),
                       Member(KeyTokenAddress, Str(tokenAddress))>>)),
          Member(KeySignature, Obj(<<Member(KeySignature, Str(signature))>>))>>)

SchemeTexts == {<<"t", "r", "o", "n", "-", "t", "r", "a", "n", "s", "f", "e", "r">>, <<"e", "x", "a", "c", "t">>}
NetworkTexts == {<<"t", "r", "o", "n", "-", "s", "h", "a", "s", "t", "a">>, <<"t", "r", "o", "n", "-", "m", "a", "i", "n", "n", "e", "t">>}
NonceTexts == {<<"n", "1">>, <<"a", "\"", "b">>, <<"\\", "/">>, <<EAcute, "x", "}">>}
SignatureTexts == {<<"0", "x", "5", "f">>, <<"=", "+", "/", "{">>}

ValidTokens ==
    {PaymentToken(scheme, network, from, value, nonce, tokenAddress, signature) :
        scheme \in SchemeTexts, network \in NetworkTexts, from \in {PayerB58, PayerHex},
        value \in {<<"9">>, <<"1", "0">>, <<"1", "0", "0">>}, nonce \in NonceTexts,
        tokenAddress \in {Undefined, UsdtB58}, signature \in SignatureTexts}

-----------------------------------------------------------------------------
(* State *)

Pending == [pending |-> TRUE]
NoRequest == [none |-> TRUE]

CallIds == 1..MaxCalls

NoVerification == [none |-> TRUE]
NoResult == [none |-> TRUE]
NoError == [kind |-> "absent"]

\* the n-th transaction id the chain client hands out
TxId(n) == <<"t", "x", DigitChar(n)>>

\* a settle call that has not been made yet
IdleCall ==
    [pc |-> "idle", request |-> NoRequest,
     approvedEarlier |-> FALSE,   \* a verify call on this request returned valid
     available |-> FALSE,         \* what isTronWalletServiceAvailable() said (line 40)
     parsed |-> FALSE,            \* parsePaymentHeader has run in this call
     verification |-> NoVerification,
     tx |-> Undefined,            \* the transaction id the call obtained
     attempts |-> 0,
     polled |-> {},               \* the transaction ids this call asked the status of
     chainError |-> NoError,      \* what the chain client threw in this call
     result |-> NoResult,         \* what the call returned
     thrown |-> NoError]          \* what the call threw to its caller

\* what the callers may throw at the chain client's place
Throwables == {Error("node unreachable"), NonError("REVERT opcode executed")}

\* what getTransactionInfo may answer: nothing known yet ({} or null), an
\* info without receipt, a receipt without result, a receipt with a result
StatusResponses == {"empty", "noReceipt", "receiptNoResult", "SUCCESS", "REVERT"}

\* no status query made yet
NoPolls == [count |-> 0, last |-> "none"]

-----------------------------------------------------------------------------
(* Wallet service holder (types.ts) *)

isTronWalletServiceAvailable == wallet # 0

\* lines 233-238
getTronWalletService ==
    IF wallet = 0
    THEN Thrown(Error("TronWalletService not initialized. Ensure TRON_PRIVATE_KEY is configured."))
    ELSE Returned(wallet)

\* lines 215-231 with a construction that throws leaving the holder empty
initializeTronWalletServiceResets(instance, privateKey, constructed) ==
    IF ~privateKey THEN instance
    ELSE IF ~constructed THEN 0
    ELSE IF instance < MaxInits THEN instance + 1 ELSE instance

\* lines 215-231, what the holder has after the call: without
\* TRON_PRIVATE_KEY the call returns, with it it constructs a
\* TronWalletService (which may throw) and stores the new object
initializeTronWalletService(instance, privateKey, constructed) ==
    IF privateKey /\ constructed /\ instance < MaxInits
    THEN instance + 1
    ELSE instance

InitializeTronWalletService ==
    /\ \E privateKey \in BOOLEAN, constructed \in BOOLEAN :
          wallet' = initializeTronWalletService(wallet, privateKey, constructed)
    /\ UNCHANGED <<now, calls, chain, vin, vout, polls>>

-----------------------------------------------------------------------------
(* TronSettlementService.settle *)

Failure(network, error) ==
    [success |-> FALSE, network |-> network, transactionHash |-> Undefined,
     settledAmount |-> Undefined, error |-> error]

FailureWithTx(network, tx, error) ==
    [success |-> FALSE, network |-> network, transactionHash |-> tx,
     settledAmount |-> Undefined, error |-> error]

\* lines 167-172 and 236-241 without settledAmount
SuccessAmountDropped(network, tx, settledAmount) ==
    [success |-> TRUE, network |-> network, transactionHash |-> tx,
     settledAmount |-> Undefined, error |-> NoError]

Success(network, tx, settledAmount) ==
    [success |-> TRUE, network |-> network, transactionHash |-> tx,
     settledAmount |-> settledAmount, error |-> NoError]

\* the call returns r: its loop counter is gone
Return(call, r) == [call EXCEPT !.pc = "done", !.result = r, !.attempts = 0]

\* the call throws e to its caller
Raise(call, e) == [call EXCEPT !.pc = "threw", !.thrown = e, !.attempts = 0]

\* lines 89-96 with the error thrown on, as the two execute functions do
settleCatchRethrows(call, e) == Raise(call, e)

\* lines 89-96: the catch of settle
settleCatch(call, e) ==
    Return(call, Failure(call.request.paymentRequirements.network,
                         [kind |-> "Exception",
                          message |-> messageOr(e, "Unknown settlement error")]))

tokenOf(call) == parsePaymentHeader(call.request.paymentHeader)
networkOfCall(call) == call.request.paymentRequirements.network

\* lines 36-58 with the header parsed before the availability check
settleEntryParsesFirst(call, request, available) ==
    LET c0 == [call EXCEPT !.request = request, !.parsed = TRUE]
        network == request.paymentRequirements.network
    IN  IF Falsy(parsePaymentHeader(request.paymentHeader))
        THEN Return(c0, Failure(network, [kind |-> "InvalidHeader"]))
        ELSE IF ~available
        THEN Return(c0, Failure(network, [kind |-> "Unavailable"]))
        ELSE [c0 EXCEPT !.pc = "verify"]

\* lines 36-58: the availability check and the parse of the header
settleEntry(call, request, available) ==
    LET c0 == [call EXCEPT !.request = request]
        network == request.paymentRequirements.network
    IN  IF ~available
        THEN Return(c0, Failure(network, [kind |-> "Unavailable"]))
        ELSE IF Falsy(parsePaymentHeader(request.paymentHeader))
        THEN Return([c0 EXCEPT !.parsed = TRUE],
                    Failure(network, [kind |-> "InvalidHeader"]))
        ELSE [c0 EXCEPT !.parsed = TRUE, !.pc = "verify"]

\* lines 70-88 with every transfer sent as a native one
settleDispatchNative(call, available) ==
    LET paymentToken == tokenOf(call)
    IN  IF schemeOf(paymentToken) = "tron-transfer"
        THEN IF ~available
             THEN settleCatch(call, Error("TronWalletService not initialized"))
             ELSE [call EXCEPT !.pc = "sendTransaction"]
        ELSE Return(call, Failure(networkOfCall(call),
                                  [kind |-> "UnsupportedScheme",
                                   scheme |-> schemeOf(paymentToken)]))

\* lines 70-88 with a token refused once a transfer to its recipient was
\* handed to the chain client, as a record of settled tokens would have it
settleDispatchOnce(call, available) ==
    LET paymentToken == tokenOf(call)
        payload == payloadOf(paymentToken)
    IN  IF schemeOf(paymentToken) = "tron-transfer"
        THEN IF ~available
             THEN settleCatch(call, Error("TronWalletService not initialized"))
             ELSE IF \E i \in 1..Len(chain) : chain[i].to = payload.to
             THEN Return(call, Failure(networkOfCall(call), [kind |-> "AlreadySettled"]))
             ELSE IF Truthy(payload.tokenAddress)
             THEN [call EXCEPT !.pc = "contract"]
             ELSE [call EXCEPT !.pc = "sendTransaction"]
        ELSE Return(call, Failure(networkOfCall(call),
                                  [kind |-> "UnsupportedScheme",
                                   scheme |-> schemeOf(paymentToken)]))

\* lines 70-88, and what executeTRC20Settlement (106-122) and
\* executeTRXSettlement (185-193) do before they first wait
settleDispatch(call, available) ==
    LET paymentToken == tokenOf(call)
        payload == payloadOf(paymentToken)
    IN  IF schemeOf(paymentToken) = "tron-transfer"
        THEN IF ~available
             THEN settleCatch(call, Error("TronWalletService not initialized"))
             ELSE IF Truthy(payload.tokenAddress)
             THEN [call EXCEPT !.pc = "contract"]
             ELSE [call EXCEPT !.pc = "sendTransaction"]
        ELSE Return(call, Failure(networkOfCall(call),
                                  [kind |-> "UnsupportedScheme",
                                   scheme |-> schemeOf(paymentToken)]))

\* lines 60-68 with an earlier approval of the same request taken as enough
settleVerifiedTrustsEarlier(call, outcome, available) ==
    LET c1 == [call EXCEPT !.verification = outcome]
    IN  IF outcome.threw THEN Raise(c1, outcome.error)
        ELSE IF ~outcome.value.isValid /\ ~call.approvedEarlier
        THEN Return(c1, Failure(networkOfCall(call),
                                [kind |-> "VerificationFailed",
                                 reason |-> outcome.value.invalidReason]))
        ELSE settleDispatch(c1, available)

\* lines 60-68: what settle does with the outcome of its verification
settleVerified(call, outcome, available) ==
    LET c1 == [call EXCEPT !.verification = outcome]
    IN  IF outcome.threw THEN Raise(c1, outcome.error)
        ELSE IF ~outcome.value.isValid
        THEN Return(c1, Failure(networkOfCall(call),
                                [kind |-> "VerificationFailed",
                                 reason |-> outcome.value.invalidReason]))
        ELSE settleDispatch(c1, available)

\* lines 137-172 with only a success receipt ending the loop
pollTRC20UntilSuccess(call, response) ==
    LET network == networkOfCall(call)
        payload == payloadOf(tokenOf(call))
    IN  IF response = "SUCCESS"
        THEN Return(call, Success(network, call.tx, payload.value))
        ELSE IF call.attempts + 1 < maxAttempts
        THEN [call EXCEPT !.attempts = call.attempts + 1, !.pc = "poll20"]
        ELSE Return(call, FailureWithTx(network, call.tx, [kind |-> "Timeout"]))

\* lines 137-172: one status answer in the loop of executeTRC20Settlement
pollTRC20(call, response) ==
    LET network == networkOfCall(call)
        payload == payloadOf(tokenOf(call))
    IN  IF response \in {"SUCCESS", "REVERT", "receiptNoResult"}
        THEN IF response = "SUCCESS"
             THEN Return(call, Success(network, call.tx, payload.value))
             ELSE IF response = "REVERT"
             THEN Return(call, FailureWithTx(network, call.tx,
                              [kind |-> "TransactionFailed", receiptResult |-> response]))
             ELSE Return(call, FailureWithTx(network, call.tx, [kind |-> "Timeout"]))
        ELSE IF call.attempts + 1 < maxAttempts
        THEN [call EXCEPT !.attempts = call.attempts + 1, !.pc = "poll20"]
        ELSE Return(call, FailureWithTx(network, call.tx, [kind |-> "Timeout"]))

\* lines 214-241 with the receipt read as the token path reads it
pollTRXReadsReceipt(call, response) ==
    LET network == networkOfCall(call)
        payload == payloadOf(tokenOf(call))
    IN  IF response = "SUCCESS"
        THEN Return(call, Success(network, call.tx, payload.value))
        ELSE IF response = "REVERT"
        THEN Return(call, FailureWithTx(network, call.tx,
                         [kind |-> "TransactionFailed", receiptResult |-> response]))
        ELSE IF call.attempts + 1 < maxAttempts
        THEN [call EXCEPT !.attempts = call.attempts + 1, !.pc = "pollTrx"]
        ELSE Return(call, FailureWithTx(network, call.tx, [kind |-> "Timeout"]))

\* lines 214-241 with the loop condition attempts <= maxAttempts
pollTRXOneMore(call, response) ==
    LET network == networkOfCall(call)
        payload == payloadOf(tokenOf(call))
    IN  IF response # "empty"
        THEN Return(call, Success(network, call.tx, payload.value))
        ELSE IF call.attempts + 1 <= maxAttempts
        THEN [call EXCEPT !.attempts = call.attempts + 1, !.pc = "pollTrx"]
        ELSE Return(call, FailureWithTx(network, call.tx, [kind |-> "Timeout"]))

\* lines 214-241: one status answer in the loop of executeTRXSettlement
pollTRX(call, response) ==
    LET network == networkOfCall(call)
        payload == payloadOf(tokenOf(call))
    IN  IF response # "empty"
        THEN Return(call, Success(network, call.tx, payload.value))
        ELSE IF call.attempts + 1 < maxAttempts
        THEN [call EXCEPT !.attempts = call.attempts + 1, !.pc = "pollTrx"]
        ELSE Return(call, FailureWithTx(network, call.tx, [kind |-> "Timeout"]))

-----------------------------------------------------------------------------
(* The steps of a settle call: one action per stretch between two waits *)

\* the requests the settle calls are made with
SettleCases ==
    Bases \cup
    {[BaseTrc20 EXCEPT !.hk = "malformed"],
     [BaseTrc20 EXCEPT !.sig = "wrongSigner"],
     [BaseNative EXCEPT !.value = <<"9">>],
     [BaseExact EXCEPT !.hasPayload = FALSE],
     [BaseTrc20 EXCEPT !.to = Undefined]}

\* a client calls verify on the request it is about to settle
VerifyFirst(c) ==
    /\ calls[c].pc = "idle"
    /\ calls[c].request = NoRequest
    /\ \E k \in SettleCases, t \in now..MaxNow :
          LET outcome == verify(RequestOf(k), t)
          IN  /\ now' = t
              /\ calls' = [calls EXCEPT ![c].request = RequestOf(k),
                             ![c].approvedEarlier = ~outcome.threw /\ outcome.value.isValid]
    /\ UNCHANGED <<wallet, chain, vin, vout, polls>>

\* settle is called: lines 36-58
SettleBegin(c) ==
    /\ calls[c].pc = "idle"
    /\ \E k \in SettleCases :
          /\ calls[c].request \in {NoRequest, RequestOf(k)}
          /\ calls' = [calls EXCEPT
                         ![c] = settleEntry([calls[c] EXCEPT
                                               !.available = isTronWalletServiceAvailable],
                                            RequestOf(k), isTronWalletServiceAvailable)]
    /\ UNCHANGED <<wallet, now, chain, vin, vout, polls>>

\* await tronX402Service.verify(request) returns or throws: lines 60-88
SettleVerify(c) ==
    /\ calls[c].pc = "verify"
    /\ \E t \in now..MaxNow :
          /\ now' = t
          /\ calls' = [calls EXCEPT
                         ![c] = settleVerified(calls[c], verify(calls[c].request, t),
                                               isTronWalletServiceAvailable)]
    /\ UNCHANGED <<wallet, chain, vin, vout, polls>>

\* await tronWeb.contract(TRC20_ABI, payload.tokenAddress): line 122
ContractLookup(c) ==
    /\ calls[c].pc = "contract"
    /\ \/ calls' = [calls EXCEPT ![c].pc = "send"]
       \/ \E e \in Throwables :
             calls' = [calls EXCEPT
                         ![c] = settleCatch([calls[c] EXCEPT !.chainError = e], e)]
    /\ UNCHANGED <<wallet, now, chain, vin, vout, polls>>

transferEntry(c, tx) ==
    LET payload == payloadOf(tokenOf(calls[c]))
    IN  [call |-> c, method |-> "transfer", contract |-> payload.tokenAddress,
         to |-> payload.to, value |-> payload.value, tx |-> tx]

\* lines 125-128 with a send that threw tried again
SendRetries(c) ==
    /\ calls[c].pc = "send"
    /\ \/ LET tx == TxId(Len(chain) + 1)
          IN  /\ chain' = Append(chain, transferEntry(c, tx))
              /\ calls' = [calls EXCEPT ![c].tx = tx, ![c].pc = "poll20"]
       \/ \E e \in Throwables :
             /\ chain' = Append(chain, transferEntry(c, Undefined))
             /\ calls' = [calls EXCEPT ![c].chainError = e]
    /\ UNCHANGED <<wallet, now, vin, vout, polls>>

\* await contract.methods.transfer(to, value).send(..): lines 125-128
Send(c) ==
    /\ calls[c].pc = "send"
    /\ \/ LET tx == TxId(Len(chain) + 1)
          IN  /\ chain' = Append(chain, transferEntry(c, tx))
              /\ calls' = [calls EXCEPT ![c].tx = tx, ![c].pc = "poll20"]
       \/ \E e \in Throwables :
             /\ chain' = Append(chain, transferEntry(c, Undefined))
             /\ calls' = [calls EXCEPT
                            ![c] = settleCatch([calls[c] EXCEPT !.chainError = e], e)]
    /\ UNCHANGED <<wallet, now, vin, vout, polls>>

sendTransactionEntry(c, tx) ==
    LET payload == payloadOf(tokenOf(calls[c]))
    IN  [call |-> c, method |-> "sendTransaction", to |-> payload.to,
         amount |-> parseInt(payload.value), tx |-> tx]

\* await tronWeb.trx.sendTransaction(to, parseInt(value, 10)): lines 193-207
SendTransaction(c) ==
    /\ calls[c].pc = "sendTransaction"
    /\ \/ LET tx == TxId(Len(chain) + 1)
          IN  /\ chain' = Append(chain, sendTransactionEntry(c, tx))
              /\ calls' = [calls EXCEPT ![c].tx = tx, ![c].pc = "pollTrx"]
       \/ /\ chain' = Append(chain, sendTransactionEntry(c, Undefined))
          /\ calls' = [calls EXCEPT
                         ![c] = Return(calls[c], Failure(networkOfCall(calls[c]),
                                                         [kind |-> "CreationFailed"]))]
       \/ \E e \in Throwables :
             /\ chain' = Append(chain, sendTransactionEntry(c, Undefined))
             /\ calls' = [calls EXCEPT
                            ![c] = settleCatch([calls[c] EXCEPT !.chainError = e], e)]
    /\ UNCHANGED <<wallet, now, vin, vout, polls>>

\* one turn of the loop of executeTRC20Settlement, lines 137-154:
\* await this.delay(2000), then await tronWeb.trx.getTransactionInfo(tx)
GetTransactionInfoTRC20(c) ==
    /\ calls[c].pc = "poll20"
    /\ LET asked == [calls[c] EXCEPT !.polled = @ \cup {calls[c].tx}]
       IN  \/ \E r \in StatusResponses : calls' = [calls EXCEPT ![c] = pollTRC20(asked, r)]
           \/ \E e \in Throwables :
                 calls' = [calls EXCEPT
                             ![c] = settleCatch([asked EXCEPT !.chainError = e], e)]
    /\ UNCHANGED <<wallet, now, chain, vin, vout, polls>>

\* one turn of the loop of executeTRXSettlement, lines 214-223:
\* await this.delay(2000), then await tronWeb.trx.getTransactionInfo(txId)
GetTransactionInfoTRX(c) ==
    /\ calls[c].pc = "pollTrx"
    /\ LET asked == [calls[c] EXCEPT !.polled = @ \cup {calls[c].tx}]
       IN  \/ \E r \in StatusResponses : calls' = [calls EXCEPT ![c] = pollTRX(asked, r)]
           \/ \E e \in Throwables :
                 calls' = [calls EXCEPT
                             ![c] = settleCatch([asked EXCEPT !.chainError = e], e)]
    /\ UNCHANGED <<wallet, now, chain, vin, vout, polls>>

Init ==
    /\ wallet = 0
    /\ now = 0
    /\ calls = [c \in CallIds |-> IdleCall]
    /\ chain = <<>>
    /\ vin = NoRequest
    /\ vout = Pending
    /\ polls = [c \in CallIds |-> NoPolls]

Next ==
    \/ InitializeTronWalletService
    \/ \E c \in CallIds :
          \/ VerifyFirst(c)
          \/ SettleBegin(c)
          \/ SettleVerify(c)
          \/ ContractLookup(c)
          \/ Send(c)
          \/ SendTransaction(c)
          \/ GetTransactionInfoTRC20(c)
          \/ GetTransactionInfoTRX(c)

Spec == Init /\ [][Next]_vars

-----------------------------------------------------------------------------
(* verify as a function of its inputs: the request and the clock are drawn *)
(* by the initial state, the one step applies verify to them               *)

InitVerify ==
    /\ wallet = 0
    /\ calls = [c \in CallIds |-> IdleCall]
    /\ chain = <<>>
    /\ vout = Pending
    /\ polls = [c \in CallIds |-> NoPolls]
    /\ \E base \in Bases, ds \in [1..MaxDeviations -> Changes] :
          LET k == ChangeAll(base, ds)
          IN  vin = RequestOf(k) /\ now = k.at

VerifyApply ==
    /\ vout = Pending
    /\ vin # NoRequest
    /\ vout' = verify(vin, now)
    /\ UNCHANGED <<wallet, now, calls, chain, vin, polls>>

NextVerify == VerifyApply

SpecVerify == InitVerify /\ [][NextVerify]_vars

-----------------------------------------------------------------------------
(* One settle call with its status queries counted: the steps of call 1 as  *)
(* in Spec, the two query steps also writing down in polls how many queries *)
(* the call has made and what the last one was answered                     *)

\* the query of the token path asking for the transaction submitted last by
\* any call, as if the id were kept on the service object
QueryStatusSharedTx(c) ==
    /\ calls[c].pc = "poll20"
    /\ LET asked == [calls[c] EXCEPT !.polled = @ \cup {TxId(Len(chain))}]
       IN  \/ \E r \in StatusResponses :
                 /\ calls' = [calls EXCEPT ![c] = pollTRC20(asked, r)]
                 /\ polls' = [polls EXCEPT ![c] = [polls[c] EXCEPT !.count = @ + 1, !.last = r]]
           \/ \E e \in Throwables :
                 /\ calls' = [calls EXCEPT
                                ![c] = settleCatch([asked EXCEPT !.chainError = e], e)]
                 /\ polls' = [polls EXCEPT ![c] = [polls[c] EXCEPT !.count = @ + 1,
                                                                    !.last = "threw"]]
    /\ UNCHANGED <<wallet, now, chain, vin, vout>>

\* GetTransactionInfoTRC20 with the query written down
QueryStatusTRC20(c) ==
    /\ calls[c].pc = "poll20"
    /\ LET asked == [calls[c] EXCEPT !.polled = @ \cup {calls[c].tx}]
       IN  \/ \E r \in StatusResponses :
                 /\ calls' = [calls EXCEPT ![c] = pollTRC20(asked, r)]
                 /\ polls' = [polls EXCEPT ![c] = [polls[c] EXCEPT !.count = @ + 1, !.last = r]]
           \/ \E e \in Throwables :
                 /\ calls' = [calls EXCEPT
                                ![c] = settleCatch([asked EXCEPT !.chainError = e], e)]
                 /\ polls' = [polls EXCEPT ![c] = [polls[c] EXCEPT !.count = @ + 1,
                                                                    !.last = "threw"]]
    /\ UNCHANGED <<wallet, now, chain, vin, vout>>

\* GetTransactionInfoTRX with the query written down
QueryStatusTRX(c) ==
    /\ calls[c].pc = "pollTrx"
    /\ LET asked == [calls[c] EXCEPT !.polled = @ \cup {calls[c].tx}]
       IN  \/ \E r \in StatusResponses :
                 /\ calls' = [calls EXCEPT ![c] = pollTRX(asked, r)]
                 /\ polls' = [polls EXCEPT ![c] = [polls[c] EXCEPT !.count = @ + 1, !.last = r]]
           \/ \E e \in Throwables :
                 /\ calls' = [calls EXCEPT
                                ![c] = settleCatch([asked EXCEPT !.chainError = e], e)]
                 /\ polls' = [polls EXCEPT ![c] = [polls[c] EXCEPT !.count = @ + 1,
                                                                    !.last = "threw"]]
    /\ UNCHANGED <<wallet, now, chain, vin, vout>>

NextPoll ==
    \/ InitializeTronWalletService
    \/ SettleBegin(1)
    \/ SettleVerify(1)
    \/ ContractLookup(1)
    \/ Send(1)
    \/ SendTransaction(1)
    \/ QueryStatusTRC20(1)
    \/ QueryStatusTRX(1)

SpecPoll == Init /\ [][NextPoll]_vars

\* a step of call 1 after settle was called: each of them is the continuation
\* of an await, run by the event loop once the awaited promise has settled
StepOfCall ==
    \/ SettleVerify(1)
    \/ ContractLookup(1)
    \/ Send(1)
    \/ SendTransaction(1)
    \/ QueryStatusTRC20(1)
    \/ QueryStatusTRX(1)

\* SpecPoll where every awaited call and every delay comes back
SpecPollFair == Init /\ [][NextPoll]_vars /\ WF_vars(StepOfCall)

-----------------------------------------------------------------------------
(* One settle call with the delay and the status query of a loop turn as    *)
(* two steps: polls also counts the delays the call has slept through       *)

NoPollsNoDelays == [count |-> 0, last |-> "none", slept |-> 0]

\* await this.delay(2000): lines 138 and 215, the first statement of a turn
Delay(c) ==
    /\ calls[c].pc \in {"poll20", "pollTrx"}
    /\ polls[c].slept = polls[c].count
    /\ polls' = [polls EXCEPT ![c].slept = @ + 1]
    /\ UNCHANGED <<wallet, now, calls, chain, vin, vout>>

\* a turn of the loop with the query put first and the delay after it
QueryBeforeDelayTRC20(c) ==
    /\ polls[c].slept = polls[c].count
    /\ QueryStatusTRC20(c)

\* await tronWeb.trx.getTransactionInfo(tx): line 140, after the delay
QueryAfterDelayTRC20(c) ==
    /\ polls[c].slept = polls[c].count + 1
    /\ QueryStatusTRC20(c)

\* await tronWeb.trx.getTransactionInfo(txId): line 217, after the delay
QueryAfterDelayTRX(c) ==
    /\ polls[c].slept = polls[c].count + 1
    /\ QueryStatusTRX(c)

InitOrder ==
    /\ wallet = 1
    /\ now = 0
    /\ calls = [c \in CallIds |-> IdleCall]
    /\ chain = <<>>
    /\ vin = NoRequest
    /\ vout = Pending
    /\ polls = [c \in CallIds |-> NoPollsNoDelays]

NextOrder ==
    \/ SettleBegin(1)
    \/ SettleVerify(1)
    \/ ContractLookup(1)
    \/ Send(1)
    \/ SendTransaction(1)
    \/ Delay(1)
    \/ QueryAfterDelayTRC20(1)
    \/ QueryAfterDelayTRX(1)

SpecOrder == InitOrder /\ [][NextOrder]_vars

-----------------------------------------------------------------------------
(* Two settle calls on the one service object, after a startup that         *)
(* configured the wallet: two clients hold the same request and each calls  *)
(* settle with it; the steps of the two calls interleave at every await     *)

TwoCalls == {1, 2}

InitTwo ==
    /\ wallet = 1
    /\ now = 0
    /\ chain = <<>>
    /\ vin = NoRequest
    /\ vout = Pending
    /\ polls = [c \in TwoCalls |-> NoPolls]
    /\ \E k \in {BaseTrc20, BaseNative} :
          calls = [c \in TwoCalls |-> [IdleCall EXCEPT !.request = RequestOf(k)]]

NextTwo ==
    \E c \in TwoCalls :
        \/ SettleBegin(c)
        \/ SettleVerify(c)
        \/ ContractLookup(c)
        \/ Send(c)
        \/ SendTransaction(c)
        \/ QueryStatusTRC20(c)
        \/ QueryStatusTRX(c)

SpecTwo == InitTwo /\ [][NextTwo]_vars

-----------------------------------------------------------------------------
(* encodePaymentHeader and parsePaymentHeader as functions of the token: the *)
(* initial state draws a token, the one step encodes it and parses the text  *)

InitCodec ==
    /\ wallet = 0
    /\ now = 0
    /\ calls = [c \in CallIds |-> IdleCall]
    /\ chain = <<>>
    /\ vout = Pending
    /\ polls = [c \in CallIds |-> NoPolls]
    /\ vin \in ValidTokens

RoundTrip ==
    /\ vout = Pending
    /\ vout' = parsePaymentHeaderText(encodePaymentHeader(vin))
    /\ UNCHANGED <<wallet, now, calls, chain, vin, polls>>

NextCodec == RoundTrip

SpecCodec == InitCodec /\ [][NextCodec]_vars

\* a has what b has under each of the keys
SameStrings(a, b, keys) == \A k \in keys : Field(a, k) = Field(b, k)

TokenKeys == {KeyScheme, KeyNetwork, KeyPayload, KeySignature}
PayloadKeys ==
    {KeyFrom, KeyTo, KeyValue, KeyValidAfter, KeyValidBefore, KeyNonce, KeyTokenAddress}

\* C17: for every valid payment token t, parsePaymentHeader of
\* encodePaymentHeader(t) equals t field for field: scheme, network, every
\* field of the payload (an absent tokenAddress is absent again), the
\* signature; and it has no other field.
C17_RoundTrip ==
    vout # Pending =>
        /\ SameStrings(vout, vin, {KeyScheme, KeyNetwork})
        /\ SameStrings(Field(vout, KeyPayload), Field(vin, KeyPayload), PayloadKeys)
        /\ SameStrings(Field(vout, KeySignature), Field(vin, KeySignature), {KeySignature})
        /\ KeysOf(vout) = TokenKeys
        /\ KeysOf(Field(vout, KeyPayload)) = KeysOf(Field(vin, KeyPayload))
        /\ KeysOf(Field(vout, KeySignature)) = {KeySignature}

\* a token without tokenAddress whose nonce has a quote in it went round
C17_Witness ==
    /\ vout # Pending
    /\ Field(Field(vin, KeyPayload), KeyTokenAddress) = NoValue
    /\ Field(Field(vin, KeyPayload), KeyNonce) = Str(<<"a", "\"", "b">>)
    /\ Field(Field(vout, KeyPayload), KeyNonce) = Str(<<"a", "\"", "b">>)

-----------------------------------------------------------------------------
(* Properties of settle, under Spec *)

Submitted(c) == \E i \in 1..Len(chain) : chain[i].call = c

OwnVerificationValid(call) ==
    /\ call.verification # NoVerification
    /\ ~call.verification.threw
    /\ call.verification.value.isValid

\* C1: a settle call hands a transfer to the chain client (sendTransaction or
\* the token contract's transfer) only if the verification made inside that
\* call returned isValid = true; that an earlier verify call approved the
\* same request does not enable a submission.
C1_SubmitsOnlyAfterOwnVerification ==
    \A c \in CallIds :
        /\ Submitted(c) => OwnVerificationValid(calls[c])
        /\ (calls[c].approvedEarlier /\ calls[c].pc \in {"done", "threw"}
              /\ ~OwnVerificationValid(calls[c])) => ~Submitted(c)

\* a call whose request an earlier verify approved, whose own verification
\* failed, and which returned without a submission
C1_Witness ==
    \E c \in CallIds :
        /\ calls[c].approvedEarlier
        /\ calls[c].pc = "done"
        /\ calls[c].verification # NoVerification
        /\ ~calls[c].verification.threw
        /\ ~calls[c].verification.value.isValid
        /\ ~Submitted(c)

\* C2: a settle call made while no wallet is configured returns success =
\* false with the unavailable error, for every header (malformed ones too),
\* without parsing or verifying the header, without a submission and without
\* a status query.
C2_UnavailableFailsFast ==
    \A c \in CallIds :
        (calls[c].pc # "idle" /\ ~calls[c].available) =>
            /\ calls[c].pc = "done"
            /\ ~calls[c].result.success
            /\ calls[c].result.error.kind = "Unavailable"
            /\ ~calls[c].parsed
            /\ calls[c].verification = NoVerification
            /\ ~Submitted(c)
            /\ calls[c].polled = {}

\* settle was called with a malformed header while no wallet was configured
C2_Witness ==
    \E c \in CallIds :
        /\ calls[c].pc = "done"
        /\ ~calls[c].available
        /\ calls[c].request.paymentHeader = MalformedHeader
        /\ calls[c].result.error.kind = "Unavailable"

\* C3: every failure result that settle returns after it obtained a
\* transaction id carries that id in transactionHash (a receipt that is no
\* success, a confirmation timeout, an error raised by a status query).
C3_FailureCarriesTransactionId ==
    \A c \in CallIds :
        (calls[c].pc = "done" /\ ~calls[c].result.success /\ calls[c].tx # Undefined)
            => calls[c].result.transactionHash = calls[c].tx

\* C4: for every header and requirements, neither verify nor settle raises
\* an exception to its caller (they return isValid = false, success = false).
C4_NothingThrown ==
    \A c \in CallIds :
        /\ calls[c].pc # "threw"
        /\ calls[c].verification # NoVerification => ~calls[c].verification.threw

\* C5 as claimed: whatever the chain client throws while the transfer is
\* submitted or its status polled, settle returns success = false with the
\* thrown value's message in error.
C5_ChainErrorMessageReturned ==
    \A c \in CallIds :
        calls[c].chainError # NoError =>
            /\ calls[c].pc = "done"
            /\ ~calls[c].result.success
            /\ calls[c].result.error.kind = "Exception"
            /\ calls[c].result.error.message = calls[c].chainError.message

\* C5 as amended: whatever the chain client throws while the transfer is
\* submitted or its status polled, settle returns (it never throws) success =
\* false, with the message of the thrown Error in error, or with the text
\* 'Unknown settlement error' when what was thrown is no Error object.
C5_ChainErrorReturnedAsFailure ==
    \A c \in CallIds :
        calls[c].chainError # NoError =>
            /\ calls[c].pc = "done"
            /\ ~calls[c].result.success
            /\ calls[c].result.error.kind = "Exception"
            /\ calls[c].chainError.isError
                  => calls[c].result.error.message = calls[c].chainError.message
            /\ ~calls[c].chainError.isError
                  => calls[c].result.error.message = "Unknown settlement error"

\* a status query threw an Error after the transfer was submitted
C5_Witness ==
    \E c \in CallIds :
        /\ calls[c].chainError # NoError
        /\ calls[c].chainError.isError
        /\ calls[c].tx # Undefined
        /\ calls[c].polled # {}
        /\ calls[c].pc = "done"

\* C11: every result settle returns has settledAmount exactly when success is
\* true and error exactly when success is false; a success result carries the
\* network of the requirements, the transaction id and settledAmount equal
\* to payload.value.
C11_SettleResultShape ==
    \A c \in CallIds :
        calls[c].pc = "done" =>
            LET r == calls[c].result
            IN  /\ (r.settledAmount # Undefined) <=> r.success
                /\ (r.error # NoError) <=> ~r.success
                /\ r.success =>
                      /\ r.network = calls[c].request.paymentRequirements.network
                      /\ calls[c].tx # Undefined
                      /\ r.transactionHash = calls[c].tx
                      /\ r.settledAmount = payloadOf(tokenOf(calls[c])).value

\* a settle call that returned success for a token transfer
C11_Witness ==
    \E c \in CallIds :
        /\ calls[c].pc = "done"
        /\ calls[c].result.success
        /\ Truthy(payloadOf(tokenOf(calls[c])).tokenAddress)

\* C18: for a verified token settle takes the contract-transfer path
\* exactly when payload.tokenAddress is present and the native-transfer path
\* exactly when it is absent; for a verified token of a scheme other than
\* the transfer scheme it returns the unsupported-scheme failure and submits
\* nothing.
C18_DispatchByTokenAddress ==
    \A c \in CallIds :
        OwnVerificationValid(calls[c]) =>
            LET paymentToken == tokenOf(calls[c])
                tokenAddress == payloadOf(paymentToken).tokenAddress
                methods == {chain[i].method : i \in {j \in 1..Len(chain) : chain[j].call = c}}
            IN  IF schemeOf(paymentToken) # "tron-transfer"
                THEN /\ calls[c].pc = "done"
                     /\ calls[c].result.error.kind = "UnsupportedScheme"
                     /\ methods = {}
                ELSE IF Truthy(tokenAddress)
                THEN /\ calls[c].pc \in {"contract", "send", "poll20", "done"}
                     /\ methods \subseteq {"transfer"}
                ELSE /\ calls[c].pc \in {"sendTransaction", "pollTrx", "done"}
                     /\ methods \subseteq {"sendTransaction"}

\* a verified token with a tokenAddress, its transfer handed to the contract
C18_Witness ==
    \E c \in CallIds :
        /\ OwnVerificationValid(calls[c])
        /\ Truthy(payloadOf(tokenOf(calls[c])).tokenAddress)
        /\ \E i \in 1..Len(chain) :
              /\ chain[i].call = c
              /\ chain[i].method = "transfer"
              /\ chain[i].contract = payloadOf(tokenOf(calls[c])).tokenAddress

\* C19: the wallet service is initialised at most once: after an
\* initialisation that succeeded, every further call of
\* initializeTronWalletService leaves the held instance as it is.
C19_InitializedAtMostOnce == [][wallet # 0 => wallet' = wallet]_vars

\* C20: isTronWalletServiceAvailable is true exactly when an initialisation
\* with a configured key has succeeded (the holder starts empty, and a call
\* of initializeTronWalletService leaves it filled exactly if it was filled
\* or the call had a key and its construction succeeded);
\* getTronWalletService throws its configuration error exactly when
\* isTronWalletServiceAvailable is false; and availability, once a settle
\* call has seen it, is still there.
C20_AvailabilityOfWallet ==
    /\ isTronWalletServiceAvailable <=> ~getTronWalletService.threw
    /\ getTronWalletService.threw => getTronWalletService.error.isError
    /\ \A c \in CallIds : calls[c].available => isTronWalletServiceAvailable
    /\ \A privateKey \in BOOLEAN, constructed \in BOOLEAN :
          (initializeTronWalletService(wallet, privateKey, constructed) # 0)
             <=> (isTronWalletServiceAvailable \/ (privateKey /\ constructed))

\* a settle call saw the wallet available, and it has been initialised again
\* since the first time
C20_Witness ==
    /\ wallet > 1
    /\ \E c \in CallIds : calls[c].available /\ calls[c].pc = "done"

-----------------------------------------------------------------------------
(* Properties of the confirmation loops, under SpecPoll *)

\* the call is, or was, in the loop of executeTRC20Settlement
OnContractPath(c) ==
    /\ polls[c].count > 0
    /\ Truthy(payloadOf(tokenOf(calls[c])).tokenAddress)

\* the call is, or was, in the loop of executeTRXSettlement
OnNativePath(c) ==
    /\ polls[c].count > 0
    /\ ~Truthy(payloadOf(tokenOf(calls[c])).tokenAddress)

TimedOut(c) ==
    /\ calls[c].pc = "done"
    /\ calls[c].result.error.kind = "Timeout"

\* C12: on the contract-transfer path a confirmation timeout is returned
\* only after all 30 status queries were made and none of them returned a
\* receipt; never after fewer than 30 queries.
C12_TimeoutOnlyAfterAllQueries ==
    \A c \in CallIds :
        (OnContractPath(c) /\ TimedOut(c)) =>
            /\ polls[c].count = maxAttempts
            /\ polls[c].last \in {"empty", "noReceipt"}

\* C13: on the contract-transfer path, when the k-th status query is the
\* first answered by a receipt with a result, the call ends there, with
\* exactly k queries made (1 <= k <= 30): with success when the result is
\* SUCCESS, and otherwise with a failure that carries the transaction id and
\* the receipt's result.
C13_ReceiptResultEndsLoop ==
    \A c \in CallIds :
        (OnContractPath(c) /\ polls[c].last \in {"SUCCESS", "REVERT"}) =>
            /\ polls[c].count \in 1..maxAttempts
            /\ calls[c].pc = "done"
            /\ calls[c].result.transactionHash = calls[c].tx
            /\ calls[c].tx # Undefined
            /\ polls[c].last = "SUCCESS" => calls[c].result.success
            /\ polls[c].last = "REVERT" =>
                  /\ ~calls[c].result.success
                  /\ calls[c].result.error.kind = "TransactionFailed"
                  /\ calls[c].result.error.receiptResult = "REVERT"

\* the third status query was answered by a receipt that is no success
C13_Witness ==
    \E c \in CallIds :
        /\ OnContractPath(c)
        /\ polls[c].count = 3
        /\ polls[c].last = "REVERT"
        /\ calls[c].pc = "done"

\* C14: on the native-transfer path settle succeeds exactly when one of at
\* most 30 status queries is answered by a non-empty status, whatever that
\* status says; it fails with a timeout that carries the transaction id when
\* all 30 are answered empty; it never reports a failure read from the
\* status.
C14_NativeConfirmedWhenQueryable ==
    \A c \in CallIds :
        OnNativePath(c) =>
            /\ polls[c].count <= maxAttempts
            /\ polls[c].last \in {"noReceipt", "receiptNoResult", "SUCCESS", "REVERT"}
                  => calls[c].pc = "done" /\ calls[c].result.success
            /\ (calls[c].pc = "done" /\ calls[c].result.success)
                  => polls[c].last \in {"noReceipt", "receiptNoResult", "SUCCESS", "REVERT"}
            /\ (polls[c].last = "empty" /\ polls[c].count < maxAttempts)
                  => calls[c].pc = "pollTrx"
            /\ (polls[c].last = "empty" /\ polls[c].count = maxAttempts)
                  => /\ TimedOut(c)
                     /\ ~calls[c].result.success
                     /\ calls[c].result.transactionHash = calls[c].tx
                     /\ calls[c].tx # Undefined
            /\ calls[c].pc = "done" => calls[c].result.error.kind # "TransactionFailed"

\* a native transfer reported settled on a status whose receipt says REVERT
C14_Witness ==
    \E c \in CallIds :
        /\ OnNativePath(c)
        /\ polls[c].last = "REVERT"
        /\ polls[c].count > 1
        /\ calls[c].pc = "done"
        /\ calls[c].result.success

\* the transfers call c handed to the chain client
SubmissionsOf(c) == {i \in 1..Len(chain) : chain[i].call = c}

\* C15: one settle call submits at most one transfer: after a submission
\* that failed, was rejected or timed out waiting for confirmation the call
\* submits nothing more; only the status query is repeated, at most 30
\* times.
C15_AtMostOneSubmission ==
    \A c \in CallIds :
        /\ Cardinality(SubmissionsOf(c)) <= 1
        /\ polls[c].count <= maxAttempts
        /\ polls[c].count > 0 => Cardinality(SubmissionsOf(c)) = 1

\* a call that made its one submission and timed out after 30 status queries
C15_Witness ==
    \E c \in CallIds :
        /\ TimedOut(c)
        /\ polls[c].count = maxAttempts
        /\ Cardinality(SubmissionsOf(c)) = 1

-----------------------------------------------------------------------------
(* Termination of a settle call, under SpecPollFair *)

AtChainClient(c) == calls[c].pc \in {"contract", "send", "sendTransaction", "poll20", "pollTrx"}

InLoop(c) == calls[c].pc \in {"poll20", "pollTrx"}

\* the loop has ended the call: with success, with the failure of the
\* receipt, with the timeout, or in the catch of settle when a query threw
LoopOutcome(c) ==
    /\ calls[c].pc = "done"
    /\ calls[c].result # NoResult
    /\ \/ calls[c].result.success
       \/ calls[c].result.error.kind \in {"TransactionFailed", "Timeout"}
       \/ polls[c].last = "threw" /\ calls[c].result.error.kind = "Exception"

-----------------------------------------------------------------------------
(* Order of the steps of a settle call, under SpecOrder *)

\* how far the attempt of call c is: 0 unverified, 1 verified, 2 submitted
\* with a transaction id in hand, 3 ended
Stage(call) ==
    CASE call.pc \in {"idle", "verify"} -> 0
      [] call.pc \in {"contract", "send", "sendTransaction"} -> 1
      [] call.pc \in {"poll20", "pollTrx"} -> 2
      [] OTHER -> 3

\* C25: an attempt only moves forward through unverified, verified,
\* submitted and ended; a status query is made only by a call to which a
\* submission has returned a transaction id, and only right after a delay
\* of its own; a call that has ended submits nothing and queries nothing.
C25_OnlyForward ==
    [][/\ Stage(calls[1]') >= Stage(calls[1])
       /\ Stage(calls[1]') \in {1, 2} /\ Stage(calls[1]) = 0
             => calls[1].pc = "verify" /\ OwnVerificationValid(calls[1]')
       /\ Stage(calls[1]') = 2 /\ Stage(calls[1]) # 2
             => Stage(calls[1]) = 1 /\ Len(chain') = Len(chain) + 1
       /\ Stage(calls[1]') = 2
             => /\ calls[1]'.tx # Undefined
                /\ \E i \in 1..Len(chain') : chain'[i].call = 1 /\ chain'[i].tx = calls[1]'.tx
       /\ polls'[1].count # polls[1].count
             => /\ Stage(calls[1]) = 2
                /\ polls'[1].count = polls[1].count + 1
                /\ polls[1].slept = polls'[1].count
                /\ calls[1]'.polled = {calls[1].tx}
       /\ Stage(calls[1]) = 3
             => calls' = calls /\ chain' = chain /\ polls' = polls]_vars

\* the call ended on its third query, each of the three after a delay
C25_Witness ==
    /\ Stage(calls[1]) = 3
    /\ polls[1].count = 3
    /\ polls[1].slept = 3
    /\ Len(chain) = 1

-----------------------------------------------------------------------------
(* Properties of two concurrent settle calls, under SpecTwo *)

\* what a call that has made status queries is left with, as a function of
\* how many it made and of the answer to the last one: the relation a call
\* running alone satisfies
OutcomeOfOwnAnswers(c) ==
    LET call == calls[c]
        count == polls[c].count
        last == polls[c].last
        contract == Truthy(payloadOf(tokenOf(call)).tokenAddress)
        goesOn == last = "empty" \/ (contract /\ last = "noReceipt")
    IN  /\ goesOn /\ count < maxAttempts
              => call.pc = (IF contract THEN "poll20" ELSE "pollTrx") /\ call.attempts = count
        /\ goesOn /\ count = maxAttempts => TimedOut(c)
        /\ last = "threw" => call.pc = "done" /\ call.result.error.kind = "Exception"
        /\ (contract /\ last = "receiptNoResult") => TimedOut(c)
        /\ (contract /\ last = "REVERT")
              => call.pc = "done" /\ call.result.error.kind = "TransactionFailed"
        /\ (last = "SUCCESS" \/ (~contract /\ ~goesOn /\ last # "threw"))
              => call.pc = "done" /\ call.result.success
        /\ (call.pc = "done" /\ last # "threw") => call.result.transactionHash = call.tx

\* C21: when two settle calls poll concurrently, each asks only for the
\* status of the transaction it submitted itself (the two have different
\* ids), and what each call ends with is what a call running alone ends with
\* on the same answers to its own queries.
C21_PollingIndependent ==
    \A c \in DOMAIN calls :
        /\ polls[c].count = 0 => calls[c].polled = {}
        /\ polls[c].count > 0 =>
              /\ calls[c].tx # Undefined
              /\ calls[c].polled = {calls[c].tx}
              /\ \A d \in DOMAIN calls \ {c} : calls[d].tx # calls[c].tx
              /\ OutcomeOfOwnAnswers(c)

\* both calls in their loops at once, neither at its first query, one ahead
C21_Witness ==
    /\ DOMAIN calls = TwoCalls
    /\ calls[1].pc = "poll20" /\ calls[2].pc = "poll20"
    /\ polls[1].count = 3 /\ polls[2].count = 2
    /\ calls[1].tx # calls[2].tx

\* C27: of two settle calls with the same header and requirements, each one
\* whose own verification passed hands its own transfer to the chain client
\* (one each, unless its contract lookup threw), whatever the other call has
\* done before; no call is refused for a reason other than its own
\* verification, its own chain-client answers or an exception.
C27_NoDeduplication ==
    \A c \in DOMAIN calls :
        /\ \A d \in DOMAIN calls : calls[d].request = calls[c].request
        /\ Cardinality(SubmissionsOf(c)) <= 1
        /\ (OwnVerificationValid(calls[c]) /\ calls[c].pc \in {"poll20", "pollTrx", "done"})
              => \/ Cardinality(SubmissionsOf(c)) = 1
                 \/ /\ calls[c].chainError # NoError
                    /\ calls[c].result.error.kind = "Exception"
        /\ (calls[c].pc = "done" /\ ~calls[c].result.success)
              => calls[c].result.error.kind \in
                    {"VerificationFailed", "Exception", "TransactionFailed",
                     "Timeout", "CreationFailed"}

\* the first call has settled the token and returned success; the second
\* call, made with the same request, has submitted a transfer of its own
C27_Witness ==
    /\ DOMAIN calls = TwoCalls
    /\ calls[1].pc = "done" /\ calls[1].result.success
    /\ OwnVerificationValid(calls[2])
    /\ Len(chain) = 2
    /\ chain[1].call = 1 /\ chain[2].call = 2
    /\ chain[1].to = chain[2].to
    /\ chain[2].tx = calls[2].tx /\ calls[2].tx # Undefined
    /\ calls[2].tx # calls[1].tx

-----------------------------------------------------------------------------
(* Properties of verify, under SpecVerify *)

VToken == parsePaymentHeader(vin.paymentHeader)
VReq == vin.paymentRequirements
VPayload == payloadOf(VToken)
VDone == vout # Pending
VReturned == VDone /\ ~vout.threw

\* the checks of verify, each by itself, in the order of the specification
CheckFails(i) ==
    CASE i = 1 -> Falsy(VToken)
      [] i = 2 -> schemeOf(VToken) # VReq.scheme
      [] i = 3 -> networkOf(VToken) # VReq.network
      [] i = 4 -> /\ schemeOf(VToken) = "tron-transfer"
                  /\ ~verifyTronSignature(VPayload, signatureOf(VToken)).valid
      [] i = 5 -> BigInt(VPayload.value) < BigInt(VReq.maxAmountRequired)
      [] i = 6 -> normalizeAddress(VPayload.to) # normalizeAddress(VReq.payTo)
      [] i = 7 -> \/ NumLt(Num(now), parseInt(VPayload.validAfter))
                  \/ NumGe(Num(now), parseInt(VPayload.validBefore))

CheckOfReason(kind) ==
    CASE kind = "Decode" -> 1
      [] kind = "SchemeMismatch" -> 2
      [] kind = "NetworkMismatch" -> 3
      [] kind \in {"SignatureFailed", "SignatureError"} -> 4
      [] kind = "Insufficient" -> 5
      [] kind = "RecipientMismatch" -> 6
      [] kind \in {"NotYetValid", "Expired"} -> 7

Checks == 1..7

\* C6: the checks run in the order decode, scheme, network, signature (for
\* tron-transfer), amount, recipient, time window; an invalid result carries
\* the reason of the first check in that order that fails, and a valid
\* result means that none fails.
C6_FirstFailingCheckReported ==
    VReturned =>
        IF vout.value.isValid
        THEN \A j \in Checks : ~CheckFails(j)
        ELSE LET i == CheckOfReason(vout.value.invalidReason.kind)
             IN  CheckFails(i) /\ \A j \in 1..(i - 1) : ~CheckFails(j)

\* a token that fails the amount check and the recipient check
C6_Witness ==
    /\ VReturned
    /\ ~vout.value.isValid
    /\ vout.value.invalidReason.kind = "Insufficient"
    /\ CheckFails(6)

\* the header is no Base64 of a JSON text, or its JSON value is no object, or
\* an object that lacks scheme, network, payload or signature
StructurallyIncomplete(paymentHeader) ==
    \/ paymentHeader.malformed
    \/ IsPrim(paymentHeader.json)
    \/ schemeOf(paymentHeader.json) = NoName
    \/ networkOf(paymentHeader.json) = NoName
    \/ ~IsObject(payloadOf(paymentHeader.json))
    \/ ~IsObject(signatureOf(paymentHeader.json))

\* C16: a header that is malformed Base64/JSON, or whose JSON value is
\* structurally incomplete (no object, or an object without scheme, network,
\* payload or signature) is a decode failure: verify returns the
\* malformed-header reason, and no partial token reaches the scheme check or
\* a later one.
C16_IncompleteHeaderIsDecodeFailure ==
    (VDone /\ StructurallyIncomplete(vin.paymentHeader)) =>
        /\ VReturned
        /\ ~vout.value.isValid
        /\ vout.value.invalidReason.kind = "Decode"

\* C7: for a decoded token whose scheme differs from the required scheme,
\* verify returns isValid = false with the scheme-mismatch reason naming the
\* required and the received scheme, whatever network, payload and signature
\* are, present or not.
C7_SchemeMismatchReported ==
    (VDone /\ ~Falsy(VToken) /\ schemeOf(VToken) # VReq.scheme) =>
        /\ VReturned
        /\ ~vout.value.isValid
        /\ vout.value.invalidReason.kind = "SchemeMismatch"
        /\ vout.value.invalidReason.expectedScheme = VReq.scheme
        /\ vout.value.invalidReason.gotScheme = schemeOf(VToken)

\* a token of another scheme that has no payload
C7_Witness ==
    /\ VDone
    /\ ~Falsy(VToken)
    /\ schemeOf(VToken) # VReq.scheme
    /\ ~IsObject(VPayload)

\* the request passes the checks before and after the amount check
PassesAllButAmount ==
    /\ ~Falsy(VToken)
    /\ ~CheckFails(2) /\ ~CheckFails(3) /\ ~CheckFails(4)
    /\ IsObject(VPayload)
    /\ VPayload.to # Undefined
    /\ ~CheckFails(6) /\ ~CheckFails(7)

\* C8: for a token that passes every other check, with value and
\* maxAmountRequired decimal texts, verify is valid when the integer value is
\* at least the integer maxAmountRequired (equal included) and is invalid
\* with the insufficient-payment reason when it is smaller (maxAmountRequired
\* - 1 included); the comparison is that of the integers, not of the texts.
C8_AmountBoundary ==
    (VDone /\ PassesAllButAmount
       /\ IsDecimal(VPayload.value) /\ IsDecimal(VReq.maxAmountRequired)) =>
        LET value == RadixVal(VPayload.value, 10)
            required == RadixVal(VReq.maxAmountRequired, 10)
        IN  /\ VReturned
            /\ value >= required => vout.value.isValid
            /\ value < required =>
                  /\ ~vout.value.isValid
                  /\ vout.value.invalidReason.kind = "Insufficient"
                  /\ vout.value.invalidReason.required = required
                  /\ vout.value.invalidReason.got = value

\* value 9 against a required 10: smaller as an integer, larger as a text
C8_Witness ==
    /\ VDone
    /\ PassesAllButAmount
    /\ VPayload.value = <<"9">>
    /\ VReq.maxAmountRequired = <<"1", "0">>
    /\ ~vout.value.isValid

\* the request passes the checks before the time window
PassesAllButTime ==
    /\ ~Falsy(VToken)
    /\ ~CheckFails(2) /\ ~CheckFails(3) /\ ~CheckFails(4)
    /\ IsObject(VPayload)
    /\ ~BigIntThrows(VPayload.value) /\ ~BigIntThrows(VReq.maxAmountRequired)
    /\ ~CheckFails(5)
    /\ VPayload.to # Undefined
    /\ ~CheckFails(6)

\* C9: for a token that passes every other check, with validAfter and
\* validBefore decimal texts, verify at time now is valid exactly when
\* validAfter <= now < validBefore; it is invalid as not yet valid when now <
\* validAfter and as expired when now >= validBefore.
C9_TimeWindowBoundary ==
    (VDone /\ PassesAllButTime
       /\ IsDecimal(VPayload.validAfter) /\ IsDecimal(VPayload.validBefore)) =>
        LET validAfter == RadixVal(VPayload.validAfter, 10)
            validBefore == RadixVal(VPayload.validBefore, 10)
        IN  /\ VReturned
            /\ vout.value.isValid <=> (validAfter <= now /\ now < validBefore)
            /\ now < validAfter => vout.value.invalidReason.kind = "NotYetValid"
            /\ (now >= validAfter /\ now >= validBefore)
                  => vout.value.invalidReason.kind = "Expired"

\* verify at the very second validBefore names
C9_Witness ==
    /\ VDone
    /\ PassesAllButTime
    /\ IsDecimal(VPayload.validAfter) /\ IsDecimal(VPayload.validBefore)
    /\ now = RadixVal(VPayload.validBefore, 10)
    /\ now > RadixVal(VPayload.validAfter, 10)
    /\ ~vout.value.isValid

\* the request passes the checks before the recipient check
PassesBeforeRecipient ==
    /\ ~Falsy(VToken)
    /\ ~CheckFails(2) /\ ~CheckFails(3) /\ ~CheckFails(4)
    /\ IsObject(VPayload)
    /\ ~BigIntThrows(VPayload.value) /\ ~BigIntThrows(VReq.maxAmountRequired)
    /\ ~CheckFails(5)

\* the account a text is an encoding of: base58, hex with the 41 prefix in
\* either case, hex with the 0x prefix
AccountOf(text) ==
    CASE text \in {MerchantB58, MerchantHex, MerchantHexUpper, MerchantHex0x} -> "merchant"
      [] text \in {StrangerB58, StrangerHex} -> "stranger"
      [] text \in {PayerB58, PayerHex} -> "payer"
      [] text \in {OtherB58, OtherHex} -> "other"
      [] OTHER -> "none"

\* C22: a payload.to and a requirements.payTo that are encodings of the same
\* address (base58, hex with the 41 prefix, hex with the 0x prefix, any
\* letter case) pass the recipient check; encodings of two different
\* addresses never pass it.
C22_EncodingsOfOneAddressMatch ==
    (VDone /\ PassesBeforeRecipient
       /\ AccountOf(VPayload.to) # "none" /\ AccountOf(VReq.payTo) # "none") =>
        /\ VReturned
        /\ (~vout.value.isValid /\ vout.value.invalidReason.kind = "RecipientMismatch")
              <=> AccountOf(VPayload.to) # AccountOf(VReq.payTo)

SignedFields == {"from", "to", "value", "validAfter", "validBefore", "nonce"}

\* the token is of the transfer scheme, its scheme and network are the
\* required ones, it carries the signature the payer made over SignedPayload,
\* and its payload differs from SignedPayload in exactly one signed field
TamperedAfterSigning ==
    /\ ~Falsy(VToken)
    /\ schemeOf(VToken) = "tron-transfer"
    /\ ~CheckFails(2) /\ ~CheckFails(3)
    /\ IsObject(VPayload)
    /\ signatureOf(VToken) = KeptSignature(VPayload.tokenAddress)
    /\ Cardinality({f \in SignedFields :
                       VPayload[f] # SignedPayload(VPayload.tokenAddress)[f]}) = 1

\* C23: for a correctly signed token of the transfer scheme whose scheme and
\* network match the requirements, replacing one of from, to, value,
\* validAfter, validBefore, nonce by another value while the signature is
\* kept makes verify return isValid = false with a signature-verification
\* reason, not with an amount, recipient or time reason.
C23_TamperingFailsSignature ==
    (VDone /\ TamperedAfterSigning) =>
        /\ VReturned
        /\ ~vout.value.isValid
        /\ vout.value.invalidReason.kind \in {"SignatureFailed", "SignatureError"}

\* the value raised after signing, everything else in order
C23_Witness ==
    /\ VDone
    /\ TamperedAfterSigning
    /\ VPayload.value = <<"1", "1">>
    /\ ~CheckFails(5) /\ ~CheckFails(6) /\ ~CheckFails(7)
    /\ ~vout.value.isValid

\* C26: for every token without tokenAddress that verify accepts, the amount
\* executeTRXSettlement hands to sendTransaction, parseInt(payload.value, 10),
\* is the integer verify compared with maxAmountRequired, BigInt(payload.value).
C26_SubmittedAmountIsVerifiedAmount ==
    (VReturned /\ vout.value.isValid /\ schemeOf(VToken) = "tron-transfer"
       /\ ~Truthy(VPayload.tokenAddress)) =>
        parseInt(VPayload.value) = Num(BigInt(VPayload.value))

\* C28: verify returns isValid = true only for a token whose validAfter and
\* validBefore are decimal integer texts.
C28_AcceptedWindowIsNumeric ==
    (VReturned /\ vout.value.isValid /\ schemeOf(VToken) = "tron-transfer") =>
        /\ IsDecimal(VPayload.validAfter)
        /\ IsDecimal(VPayload.validBefore)

\* C10: a result of verify has invalidReason exactly when isValid is false,
\* payer and paymentToken exactly when isValid is true, payer being
\* payload.from and paymentToken the decoded token.
C10_ResultShape ==
    VReturned =>
        /\ (vout.value.invalidReason # NoReason) <=> ~vout.value.isValid
        /\ (vout.value.payer # Undefined) <=> vout.value.isValid
        /\ (vout.value.paymentToken # NoObject) <=> vout.value.isValid
        /\ vout.value.isValid =>
              /\ vout.value.payer = VPayload.from
              /\ vout.value.paymentToken = VToken

=============================================================================
